---- MODULE Spec2Model ----
(***************************************************************************)
(* A model of borg-ui's backend core: the command execution engine         *)
(* (app/core/borgmatic.py), the manual backup API (app/api/backup.py), the *)
(* archive/restore API (app/api/archives.py, app/api/restore.py), the job   *)
(* scheduler and its API (app/api/schedule.py), the event bus with its     *)
(* streams (app/api/events.py), the repository status aggregate and the    *)
(* startup handlers (app/main.py).                                         *)
(*                                                                         *)
(* Strings are sequences of one-character strings.  Python's None and the  *)
(* empty string are both falsy and are both modelled by the empty          *)
(* sequence.  Handlers are asyncio coroutines: the code between two        *)
(* suspension points runs atomically, so one action models a handler from  *)
(* one suspension point to the next.                                       *)
(***************************************************************************)
EXTENDS Integers, Sequences, FiniteSets, TLC

\* ------------------------------------------------------------------ bounds
MaxTasks == 2
MaxRuns == 2
MaxProcs == 2
MaxTime == 4
MaxJobs == 2
MaxPathLen == 3
MaxStreams == 2
MaxEvents == 2
MaxSeconds == 35
MaxRepos == 3

\* ------------------------------------------------------- program constants
backup_timeout == 3600
DefaultTimeout == 3600
ValidateConfigTimeout == 30
MaxArgLen == 1000
PollInterval == 1

\* ----------------------------------------------------------------- strings
Lower == {"a","b","c","d","e","f","g","h","i","j","k","l","m",
          "n","o","p","q","r","s","t","u","v","w","x","y","z"}
Upper == {"A","B","C","D","E","F","G","H","I","J","K","L","M",
          "N","O","P","Q","R","S","T","U","V","W","X","Y","Z"}
Digits == {"0","1","2","3","4","5","6","7","8","9"}

\* dangerous_chars: semicolon, ampersand, pipe, backtick, dollar, backslash.
\* The backtick, the backslash and the newline are written by name.
BackTick == "BACKTICK"
BackSlash == "BACKSLASH"
NewLine == "NEWLINE"
DangerousChars == {";", "&", "|", BackTick, "$", BackSlash}

\* an allow-list that lacks the underscore
SafeCharsNoUnderscore == Lower \cup Upper \cup Digits \cup {"/", ".", "-"}

\* safe_pattern = r'^[a-zA-Z0-9/._-]+$'
SafeChars == Lower \cup Upper \cup Digits \cup {"/", ".", "-", "_"}

NoneStr == <<>>
GoodRepo == <<"r", "1">>
OtherRepo == <<"r", "2">>
BadRepo == <<"r", ";", "x">>
AbsRepo == <<"/", "r">>
GoodCfg == <<"c", ".", "y">>
GoodArchive == <<"a", "-", "1">>
BadArchive == <<"a", "$", "1">>
TraversalPath == <<".", ".", "/", "e">>
GoodPath == <<"d", "/", "f">>

\* Settings.borgmatic_config_path: "/app/config/borgmatic.yaml"
DefaultConfigPath ==
    <<"/","a","p","p","/","c","o","n","f","i","g","/",
      "b","o","r","g","m","a","t","i","c",".","y","a","m","l">>
\* a BORGMATIC_CONFIG_PATH override that is a relative path
RelConfigPath == <<"b", ".", "y">>
ConfigPaths == {DefaultConfigPath, RelConfigPath}

HasDangerousChar(s) == \E i \in 1..Len(s) : s[i] \in DangerousChars

HasDotDot(s) == \E i \in 1..(Len(s) - 1) : s[i] = "." /\ s[i + 1] = "."

\* re.match(r'^[a-zA-Z0-9/._-]+$', s): '$' matches at the end of the string
\* and also just before a newline that ends the string.
MatchesSafePattern(s) ==
    /\ Len(s) >= 1
    /\ \/ \A i \in 1..Len(s) : s[i] \in SafeChars
       \/ /\ Len(s) >= 2
          /\ s[Len(s)] = NewLine
          /\ \A i \in 1..(Len(s) - 1) : s[i] \in SafeChars

\* BorgmaticInterface._validate_path
ValidatePath(path) ==
    IF path = <<>> THEN FALSE
    ELSE IF HasDangerousChar(path) THEN FALSE
    ELSE IF HasDotDot(path) \/ path[1] = "/" THEN FALSE
    ELSE MatchesSafePattern(path)

\* a sanitizer that leaves the backslash in place
SanitizeArgKeepingBackslash(arg) ==
    IF arg = <<>> THEN <<>>
    ELSE LET sanitized == SelectSeq(arg, LAMBDA c :
                                    c \notin DangerousChars \ {BackSlash})
         IN  SubSeq(sanitized, 1, IF Len(sanitized) < MaxArgLen
                                  THEN Len(sanitized) ELSE MaxArgLen)

\* BorgmaticInterface._sanitize_arg
SanitizeArg(arg) ==
    IF arg = <<>> THEN <<>>
    ELSE LET sanitized == SelectSeq(arg, LAMBDA c : c \notin DangerousChars)
         IN  SubSeq(sanitized, 1, IF Len(sanitized) < MaxArgLen
                                  THEN Len(sanitized) ELSE MaxArgLen)

\* ------------------------------------------------------------------ results
\* The dict _execute_command and the executor operations return.  stderr is a
\* sequence of tokens; `raised` tells a returned value from a propagated
\* exception.
NoResult ==
    [return_code |-> 0, stdout |-> "", stderr |-> <<>>,
     success |-> FALSE, raised |-> FALSE]

\* borgmatic.py:80-85: the result of a process that ran to completion
ExitResult(code, out, err) ==
    [return_code |-> code, stdout |-> out, stderr |-> <<err>>,
     success |-> (code = 0), raised |-> FALSE]

\* the timeout handled by the generic handler: str(TimeoutError()) is empty
TimeoutResultUnhandled(timeout) ==
    [return_code |-> -1, stdout |-> "", stderr |-> <<"">>,
     success |-> FALSE, raised |-> FALSE]

\* borgmatic.py:97-104: except asyncio.TimeoutError
TimeoutResult(timeout) ==
    [return_code |-> -1, stdout |-> "",
     stderr |-> <<"Command timed out after", timeout, "seconds">>,
     success |-> FALSE, raised |-> FALSE]

\* borgmatic.py:105-112: except Exception as e
ErrorResult(e) ==
    [return_code |-> -1, stdout |-> "", stderr |-> <<e>>,
     success |-> FALSE, raised |-> FALSE]

\* borgmatic.py:120-125 and the like: a rejected path argument
InvalidResult(what) ==
    [return_code |-> -1, stdout |-> "", stderr |-> <<what>>,
     success |-> FALSE, raised |-> FALSE]

\* stdout.decode() / stderr.decode() (borgmatic.py:82-83) raise
\* UnicodeDecodeError on output that is not UTF-8; the error is caught by
\* "except Exception" (borgmatic.py:105) and folded into a result.
CommunicateResult(code, decodable, out, err) ==
    IF decodable THEN ExitResult(code, out, err)
    ELSE ErrorResult("UnicodeDecodeError")

\* the launch error propagating to the caller
LaunchFailureRaised(e) ==
    [return_code |-> 0, stdout |-> "", stderr |-> <<e>>,
     success |-> FALSE, raised |-> TRUE]

\* create_subprocess_exec raising (borgmatic.py:69, caught at 105)
LaunchFailureResult(e) == ErrorResult(e)

LaunchErrors == {"FileNotFoundError", "PermissionError"}
ExitCodes == {0, 1, 2}
StderrTexts == {"", "borg: error"}

\* ------------------------------------------------------ executor operations
RepoInputs == {NoneStr, GoodRepo, OtherRepo, BadRepo}
CfgInputs == {NoneStr, GoodCfg, AbsRepo}
RepoArgInputs == {GoodRepo, BadRepo}

Built(args, timeout) ==
    [ok |-> TRUE, err |-> "", args |-> args, timeout |-> timeout]
Rejected(what) ==
    [ok |-> FALSE, err |-> what, args |-> <<>>, timeout |-> 0]

\* BorgmaticInterface.run_backup: the command it builds, or the failure it
\* returns.  args are the user-supplied values that reach the command line.
RunBackupCommand(repository, config_file, cpath) ==
    IF repository # <<>> /\ ~ValidatePath(repository)
    THEN Rejected("Invalid repository path: contains dangerous characters")
    ELSE LET repoArgs == IF repository # <<>>
                         THEN <<SanitizeArg(repository)>> ELSE <<>>
         IN  IF config_file # <<>>
             THEN IF ~ValidatePath(config_file)
                  THEN Rejected("Invalid config file path: contains dangerous characters")
                  ELSE Built(repoArgs \o <<SanitizeArg(config_file)>>, backup_timeout)
             ELSE IF cpath # <<>>
                  THEN IF ~ValidatePath(cpath)
                       THEN Rejected("Invalid config path: contains dangerous characters")
                       ELSE Built(repoArgs, backup_timeout)
                  ELSE Built(repoArgs, backup_timeout)

\* BorgmaticInterface.list_archives
ListArchivesCommand(repository) ==
    IF ~ValidatePath(repository)
    THEN Rejected("Invalid repository path: contains dangerous characters")
    ELSE Built(<<SanitizeArg(repository)>>, DefaultTimeout)

\* BorgmaticInterface.info_archive
InfoArchiveCommand(repository, archive) ==
    Built(<<repository, archive>>, DefaultTimeout)

\* BorgmaticInterface.list_archive_contents
ListContentsCommand(repository, archive, path) ==
    Built(<<repository, archive>> \o (IF path # <<>> THEN <<path>> ELSE <<>>),
          DefaultTimeout)

\* BorgmaticInterface.extract_archive
ExtractCommand(repository, archive, paths, destination) ==
    Built(<<repository, archive, destination>> \o paths, backup_timeout)

\* BorgmaticInterface.delete_archive
DeleteArchiveCommand(repository, archive) ==
    Built(<<repository, archive>>, DefaultTimeout)

\* BorgmaticInterface.prune_archives
PruneCommand(repository) == Built(<<repository>>, DefaultTimeout)

\* BorgmaticInterface.check_repository
CheckCommand(repository) == Built(<<repository>>, DefaultTimeout)

\* BorgmaticInterface.compact_repository
CompactCommand(repository) == Built(<<repository>>, DefaultTimeout)

\* BorgmaticInterface.validate_config: the command runs on a temporary file
ValidateConfigCommand == Built(<<>>, ValidateConfigTimeout)

\* One call of an executor operation with its arguments
Request(op, repository, config_file, archive, paths, destination) ==
    [op |-> op, repository |-> repository, config_file |-> config_file,
     archive |-> archive, paths |-> paths, destination |-> destination]

\* The calls the API layer makes (archives.py, restore.py, config.py and the
\* run_backup callers), with arguments drawn from the input sets
ExecRequests ==
    {Request("create", r, c, <<>>, <<>>, <<>>) :
        r \in {GoodRepo, BadRepo}, c \in CfgInputs}
    \cup {Request("list", r, <<>>, <<>>, <<>>, <<>>) : r \in RepoArgInputs}
    \cup {Request("delete", r, <<>>, GoodArchive, <<>>, <<>>) : r \in RepoArgInputs}
    \cup {Request("info", GoodRepo, <<>>, BadArchive, <<>>, <<>>),
          Request("contents", GoodRepo, <<>>, GoodArchive, <<TraversalPath>>, <<>>),
          Request("extract", GoodRepo, <<>>, GoodArchive, <<TraversalPath>>, AbsRepo),
          Request("prune", BadRepo, <<>>, <<>>, <<>>, <<>>),
          Request("check", AbsRepo, <<>>, <<>>, <<>>, <<>>),
          Request("compact", BadRepo, <<>>, <<>>, <<>>, <<>>),
          Request("config_validate", <<>>, <<>>, <<>>, <<>>, <<>>)}

\* The command the executor builds for a request
OpCommand(req, cpath) ==
    CASE req.op = "create" ->
            RunBackupCommand(req.repository, req.config_file, cpath)
      [] req.op = "list" -> ListArchivesCommand(req.repository)
      [] req.op = "info" -> InfoArchiveCommand(req.repository, req.archive)
      [] req.op = "contents" ->
            ListContentsCommand(req.repository, req.archive,
                                IF req.paths = <<>> THEN <<>> ELSE req.paths[1])
      [] req.op = "extract" ->
            ExtractCommand(req.repository, req.archive, req.paths, req.destination)
      [] req.op = "delete" -> DeleteArchiveCommand(req.repository, req.archive)
      [] req.op = "prune" -> PruneCommand(req.repository)
      [] req.op = "check" -> CheckCommand(req.repository)
      [] req.op = "compact" -> CompactCommand(req.repository)
      [] OTHER -> ValidateConfigCommand

\* -------------------------------------------------------------------- state
VARIABLES
    config_path,   \* BorgmaticInterface.config_path
    task,          \* the request handlers (and the scheduler) suspended in a call
    procs,         \* the external processes spawned by _execute_command
    lastCall,      \* the executor call that returned last (history)
    backupJobs,    \* the BackupJob (BackupJobRun) records of the data store
    now,           \* the wall clock, in minutes
    jobs,          \* the ScheduledJob records of the data store
    sched,         \* the position of the check_scheduled_jobs coroutine
    schedHist,     \* per job, the triggers the scheduler served (history)
    pathCheck,     \* one call of _validate_path: its argument and its result
    connections,   \* EventManager.connections: the (user id, queue) pairs
    queues,        \* the asyncio.Queue objects, by the stream that owns them
    streams,       \* the event_generator coroutines (SSE streams)
    published,     \* the number of events broadcast_event has built
    lastPublish,   \* the broadcast_event call that returned last (history)
    seconds,       \* the wall clock of the event streams, in seconds
    lock,          \* EventManager._lock and the calls suspended on it
    lastReq,       \* the schedule API request answered last (history)
    statusCall,    \* one call of get_repository_status: lookups and result
    executor,      \* the module-level BorgmaticInterface instance, if any
    sanitizeCall,  \* one call of _sanitize_arg: argument and result
    background     \* the coroutines the startup handlers have started

busVars == <<connections, queues, streams, published, lastPublish, seconds,
             lock>>
coreVars == <<config_path, task, procs, lastCall, backupJobs, now, jobs, sched,
             schedHist>>
toolVars == <<executor, sanitizeCall>>
apiVars == <<lastReq, statusCall, background, toolVars>>
vars == <<config_path, task, procs, lastCall, backupJobs, now, jobs, sched,
          schedHist, pathCheck, busVars, apiVars>>
schedVars == <<now, jobs, sched, schedHist>>

SchedTask == 0
Tasks == 1..MaxTasks
TaskIds == 0..MaxTasks
Pids == 1..MaxProcs
JobIds == 1..MaxJobs

DefaultRepoName == <<"d", "e", "f", "a", "u", "l", "t">>
Terminal == {"completed", "failed", "cancelled"}

IdleTask ==
    [kind |-> "idle", pc |-> "idle", op |-> "none", repo |-> <<>>,
     timeout |-> 0, proc |-> 0, run |-> 0, job |-> 0]

FreeProc == [state |-> "free", op |-> "none", repo |-> <<>>, args |-> <<>>]

NoCall ==
    [timeout |-> 0, outcome |-> "none", exitCode |-> 0,
     stderrText |-> "", result |-> NoResult, procRunning |-> FALSE]

NoJob ==
    [exists |-> FALSE, name |-> <<>>, enabled |-> FALSE, cron |-> 0,
     repository |-> <<>>, config_file |-> <<>>, next_run |-> -1,
     last_run |-> -1]

IdleSched ==
    [pc |-> "sleep", wakeAt |-> 0, due |-> <<>>, idx |-> 0, executed |-> {}]

NoHist == [prevTrigger |-> -1, lastTrigger |-> -1, last |-> -1]

\* ---- the event bus (app/api/events.py)
\* user ids as the streams and the publishers pass them: str(current_user.id)
Users == {<<"1">>, <<"2">>}
Streams == 1..MaxStreams

\* asyncio.Queue() (events.py:31): maxsize 0, a queue without a bound
QueueMaxSize == 0

\* event_generator: asyncio.wait_for(queue.get(), timeout=30.0)
KeepaliveWindow == 30

\* an event_generator that was not started
NoStream ==
    [pc |-> "idle", user |-> <<>>, subAt |-> 0, subSeq |-> 0, waitSince |-> 0,
     delivered |-> <<>>, keepalives |-> 0, unregAt |-> -1]

\* no broadcast_event call has returned yet
NoPublish == [id |-> 0, target |-> <<>>, conn |-> <<>>, raised |-> FALSE]

\* asyncio.Lock(), not held; `call`, `targets` and `at` describe the
\* broadcast_event call that holds the lock suspended in a put
FreeLock ==
    [held |-> FALSE, waiting |-> FALSE, call |-> NoPublish, targets |-> <<>>,
     at |-> 0]

\* no request of the schedule API answered yet.  admin is the is_admin flag
\* of the user who sent the request, prev the next_run the job had stored
\* when the request arrived
NoReq ==
    [op |-> "none", job |-> 0, admin |-> FALSE, name |-> <<>>, cron |-> <<>>,
     prev |-> -1, status |-> 0, detail |-> ""]

\* a get_repository_status call that was not made
NoStatusCall ==
    [called |-> FALSE, config |-> FALSE, lookups |-> <<>>,
     result |-> [success |-> FALSE, repositories |-> <<>>]]

\* `borgmatic = BorgmaticInterface()` (borgmatic.py:505) before it ran:
\* state is "none", then "constructed" or "failed"; probe is what the
\* `borgmatic --version` check met, error the exception __init__ raised
NoExecutor == [state |-> "none", probe |-> "", error |-> ""]

\* the instance of an installation whose version check exits 0
ReadyExecutor == [state |-> "constructed", probe |-> "exit0", error |-> ""]

\* a _sanitize_arg call that was not made
NoSanitize == [arg |-> <<>>, called |-> FALSE, result |-> <<>>]

\* a _validate_path call that was not made
NoCheck == [path |-> <<>>, called |-> FALSE, valid |-> FALSE]

\* the executor, the data store and the scheduler after construction
InitCore ==
    /\ config_path \in ConfigPaths
    /\ task = [t \in TaskIds |-> IdleTask]
    /\ procs = [p \in Pids |-> FreeProc]
    /\ lastCall = NoCall
    /\ backupJobs = <<>>
    /\ now = 0
    /\ jobs = [j \in JobIds |-> NoJob]
    /\ sched = IdleSched
    /\ schedHist = [j \in JobIds |-> NoHist]

\* EventManager.__init__ (events.py:24-26): no connection, the lock free
InitBus ==
    /\ connections = <<>>
    /\ queues = [s \in Streams |-> <<>>]
    /\ streams = [s \in Streams |-> NoStream]
    /\ published = 0
    /\ lastPublish = NoPublish
    /\ seconds = 0
    /\ lock = FreeLock

\* no schedule request answered, no status aggregate asked for, no startup
\* handler run
InitApi ==
    /\ lastReq = NoReq
    /\ statusCall = NoStatusCall
    /\ background = {}

\* the modules were imported: the executor instance exists
InitTool ==
    /\ executor = ReadyExecutor
    /\ sanitizeCall = NoSanitize

Init ==
    /\ InitCore
    /\ pathCheck = NoCheck
    /\ InitBus
    /\ InitApi
    /\ InitTool

\* the application with the default settings
InitDefault == Init /\ config_path = DefaultConfigPath

\* ------------------------------------------------ executor construction
\* what running `borgmatic --version` can meet: the tool answers with exit
\* code 0, answers with another code, does not answer within the check
\* timeout, is not installed, or cannot be executed (another OSError)
Probes == {"exit0", "nonzero", "timeout", "not_found", "os_error"}

\* a check of the installation that only logs an exit code other than 0
ValidateInstallationLogging(probe) ==
    CASE probe = "exit0" -> ""
      [] probe = "nonzero" -> ""
      [] probe \in {"timeout", "not_found"} -> "RuntimeError"
      [] OTHER -> "OSError"

\* _validate_borgmatic_installation: the exception it raises, "" if none.
\* The RuntimeError of the non-zero branch is raised inside the try block
\* and is not one of the two exceptions the except clause names.
ValidateInstallation(probe) ==
    CASE probe = "exit0" -> ""
      [] probe = "nonzero" -> "RuntimeError"
      [] probe \in {"timeout", "not_found"} -> "RuntimeError"
      [] OTHER -> "OSError"

\* BorgmaticInterface.__init__ run by the module-level instantiation: an
\* exception of the check leaves the name `borgmatic` unbound and the import
\* of the module fails
Construct(probe) ==
    /\ executor.state = "none"
    /\ LET e == ValidateInstallation(probe)
       IN  executor' = [state |-> IF e = "" THEN "constructed" ELSE "failed",
                        probe |-> probe, error |-> e]
    /\ UNCHANGED <<lastReq, statusCall, background, sanitizeCall, pathCheck,
                   busVars, coreVars>>

\* the handlers of the modules that import the instance exist
ExecutorExists == executor.state = "constructed"

\* ------------------------------------------------------- command execution
FreePids == {p \in Pids : procs[p].state = "free"}

NewPid == CHOOSE p \in FreePids : \A q \in FreePids : p <= q

\* backup.py:61-95: start_backup records the outcome of its run_backup call
RecordOutcome(bj, kind, run, res) ==
    IF kind = "start_backup"
    THEN [bj EXCEPT ![run].status = IF res.success THEN "completed" ELSE "failed",
                    ![run].progress = IF res.success THEN 100 ELSE @]
    ELSE bj

\* The call of task t has returned res: the handler runs to its end, and
\* the call is remembered as the last one that returned.
Returned(t, base, timeout, res, outcome, code, err, bj) ==
    /\ task' = [task EXCEPT ![t] = IdleTask]
    /\ backupJobs' = RecordOutcome(bj, base.kind, base.run, res)
    /\ lastCall' = [timeout |-> timeout, outcome |-> outcome,
                    exitCode |-> code, stderrText |-> err, result |-> res,
                    procRunning |-> (base.proc # 0
                                     /\ procs'[base.proc].state = "running")]

\* an executor that keeps a running marker per repository for as long as a
\* backup process of the repository exists, the caller having returned or not
BeginBusy(t, base, cmd, bj) ==
    IF ~cmd.ok
    THEN /\ procs' = procs
         /\ Returned(t, base, 0, InvalidResult(cmd.err), "invalid", 0, "", bj)
    ELSE IF /\ base.op = "create"
            /\ \E p \in Pids : /\ procs[p].state = "running"
                               /\ procs[p].op = "create"
                               /\ procs[p].repo = base.repo
    THEN /\ procs' = procs
         /\ Returned(t, base, 0, InvalidResult("Backup already running"),
                     "invalid", 0, "", bj)
    ELSE \/ \E e \in LaunchErrors :
              /\ procs' = procs
              /\ Returned(t, base, cmd.timeout, LaunchFailureResult(e),
                          "launch_failed", 0, "", bj)
         \/ /\ FreePids # {}
            /\ procs' = [procs EXCEPT ![NewPid] =
                            [state |-> "running", op |-> base.op,
                             repo |-> base.repo, args |-> cmd.args]]
            /\ task' = [task EXCEPT ![t] =
                            [base EXCEPT !.pc = "wait", !.proc = NewPid,
                                         !.timeout = cmd.timeout]]
            /\ backupJobs' = bj
            /\ lastCall' = lastCall

\* _execute_command up to its first suspension (borgmatic.py:64-78): the
\* command is rejected by validation, or cannot be launched, or its process
\* is spawned and the caller waits on communicate() under the timeout.
Begin(t, base, cmd, bj) ==
    IF ~cmd.ok
    THEN /\ procs' = procs
         /\ Returned(t, base, 0, InvalidResult(cmd.err), "invalid", 0, "", bj)
    ELSE \/ \E e \in LaunchErrors :
              /\ procs' = procs
              /\ Returned(t, base, cmd.timeout, LaunchFailureResult(e),
                          "launch_failed", 0, "", bj)
         \/ /\ FreePids # {}
            /\ procs' = [procs EXCEPT ![NewPid] =
                            [state |-> "running", op |-> base.op,
                             repo |-> base.repo, args |-> cmd.args]]
            /\ task' = [task EXCEPT ![t] =
                            [base EXCEPT !.pc = "wait", !.proc = NewPid,
                                         !.timeout = cmd.timeout]]
            /\ backupJobs' = bj
            /\ lastCall' = lastCall

\* backup.py:26-59: POST /start creates the BackupJob record with status
\* running and calls run_backup
StartBackup(t, repository, config_file) ==
    /\ ExecutorExists
    /\ task[t].pc = "idle"
    /\ Len(backupJobs) < MaxRuns
    /\ LET rec == [repository |-> IF repository # <<>> THEN repository
                                  ELSE DefaultRepoName,
                   status |-> "running", progress |-> 0]
           base == [IdleTask EXCEPT !.kind = "start_backup", !.op = "create",
                                    !.repo = repository,
                                    !.run = Len(backupJobs) + 1]
       IN  Begin(t, base, RunBackupCommand(repository, config_file, config_path),
                 Append(backupJobs, rec))
    /\ UNCHANGED <<apiVars, pathCheck, busVars, config_path, schedVars>>

\* a caller (archives.py, restore.py, config.py, run-now) invokes one
\* executor operation
ExecutorCall(t, req) ==
    /\ ExecutorExists
    /\ task[t].pc = "idle"
    /\ LET base == [IdleTask EXCEPT !.kind = "op", !.op = req.op,
                                    !.repo = IF req.op = "create"
                                             THEN req.repository ELSE <<>>]
       IN  Begin(t, base, OpCommand(req, config_path), backupJobs)
    /\ UNCHANGED <<apiVars, pathCheck, busVars, config_path, schedVars>>

\* borgmatic.py:75-95: the awaited process exits with `code` and
\* communicate() returns; the handler resumes and runs to its end
Complete(t, code, decodable, err) ==
    /\ task[t].pc = "wait"
    /\ procs[task[t].proc].state = "running"
    /\ procs' = [procs EXCEPT ![task[t].proc] = FreeProc]
    /\ Returned(t, task[t], task[t].timeout,
                CommunicateResult(code, decodable, "out", err),
                IF decodable THEN "exited" ELSE "decode_failed", code,
                IF decodable THEN err ELSE "", backupJobs)
    /\ UNCHANGED <<apiVars, pathCheck, busVars, config_path, schedVars>>

\* borgmatic.py:97-104: wait_for gives up after `timeout` seconds; the
\* coroutine awaiting communicate() is cancelled, the process is not signalled
Timeout(t) ==
    /\ task[t].pc = "wait"
    /\ procs[task[t].proc].state = "running"
    /\ procs' = procs
    /\ Returned(t, task[t], task[t].timeout, TimeoutResult(task[t].timeout),
                "timeout", 0, "", backupJobs)
    /\ UNCHANGED <<apiVars, pathCheck, busVars, config_path, schedVars>>

\* a process nobody waits for any more exits by itself
OrphanExit(p) ==
    /\ procs[p].state = "running"
    /\ \A t \in TaskIds : task[t].proc # p
    /\ procs' = [procs EXCEPT ![p] = FreeProc]
    /\ UNCHANGED <<apiVars, pathCheck, busVars, config_path, task, lastCall, backupJobs, schedVars>>

\* a cancel request that also ends the backup process of the record
CancelBackupKilling(r) ==
    /\ r \in 1..Len(backupJobs)
    /\ backupJobs[r].status = "running"
    /\ backupJobs' = [backupJobs EXCEPT ![r].status = "cancelled"]
    /\ procs' = [p \in Pids |->
                    IF \E t \in Tasks : task[t].run = r /\ task[t].proc = p
                    THEN FreeProc ELSE procs[p]]
    /\ UNCHANGED <<apiVars, pathCheck, busVars, config_path, task, lastCall, schedVars>>

\* backup.py:143-174: DELETE /cancel/{job_id}
CancelBackup(r) ==
    /\ r \in 1..Len(backupJobs)
    /\ backupJobs[r].status = "running"
    /\ backupJobs' = [backupJobs EXCEPT ![r].status = "cancelled"]
    /\ UNCHANGED <<apiVars, pathCheck, busVars, config_path, task, procs, lastCall, schedVars>>

\* The backup API: concurrent start and cancel requests
Next ==
    \/ \E t \in Tasks, r \in RepoInputs, c \in CfgInputs : StartBackup(t, r, c)
    \/ \E t \in Tasks, code \in ExitCodes, dec \in BOOLEAN, err \in StderrTexts :
            Complete(t, code, dec, err)
    \/ \E t \in Tasks : Timeout(t)
    \/ \E p \in Pids : OrphanExit(p)
    \/ \E r \in 1..MaxRuns : CancelBackup(r)

Spec == Init /\ [][Next]_vars

\* The backup API with one start request in flight at a time, and cancel
\* requests
NextCancel ==
    \/ \E r \in RepoInputs, c \in CfgInputs : StartBackup(1, r, c)
    \/ \E code \in ExitCodes, dec \in BOOLEAN, err \in StderrTexts :
            Complete(1, code, dec, err)
    \/ Timeout(1)
    \/ \E p \in Pids : OrphanExit(p)
    \/ \E r \in 1..MaxRuns : CancelBackup(r)

SpecCancel == Init /\ [][NextCancel]_vars

\* backup.py:61-109: run_backup has returned res to start_backup and the
\* db.commit() of line 95 raises.  The handler answers 500 from its except
\* clause; get_db closes the session and the status assigned to the loaded
\* object is dropped, the stored record stays as it was.
ReturnedUncommitted(t, base, timeout, res, outcome, code, err) ==
    /\ task' = [task EXCEPT ![t] = IdleTask]
    /\ backupJobs' = backupJobs
    /\ lastCall' = [timeout |-> timeout, outcome |-> outcome,
                    exitCode |-> code, stderrText |-> err, result |-> res,
                    procRunning |-> (base.proc # 0
                                     /\ procs'[base.proc].state = "running")]

\* borgmatic.py:75-95, backup.py:61-109: the backup process of a start
\* request exits, the handler resumes and its commit raises
CompleteUncommitted(t, code, decodable, err) ==
    /\ task[t].kind = "start_backup"
    /\ task[t].pc = "wait"
    /\ procs[task[t].proc].state = "running"
    /\ procs' = [procs EXCEPT ![task[t].proc] = FreeProc]
    /\ ReturnedUncommitted(t, task[t], task[t].timeout,
                           CommunicateResult(code, decodable, "out", err),
                           IF decodable THEN "exited" ELSE "decode_failed",
                           code, IF decodable THEN err ELSE "")
    /\ UNCHANGED <<apiVars, pathCheck, busVars, config_path, schedVars>>

\* borgmatic.py:97-104, backup.py:61-109: the backup of a start request
\* times out, the handler resumes and its commit raises
TimeoutUncommitted(t) ==
    /\ task[t].kind = "start_backup"
    /\ task[t].pc = "wait"
    /\ procs[task[t].proc].state = "running"
    /\ procs' = procs
    /\ ReturnedUncommitted(t, task[t], task[t].timeout,
                           TimeoutResult(task[t].timeout), "timeout", 0, "")
    /\ UNCHANGED <<apiVars, pathCheck, busVars, config_path, schedVars>>

\* The start handler with a data store whose commits can fail: start
\* requests one at a time
NextStart ==
    \/ \E r \in RepoInputs, c \in CfgInputs : StartBackup(1, r, c)
    \/ \E code \in ExitCodes, dec \in BOOLEAN, err \in StderrTexts :
            Complete(1, code, dec, err)
    \/ Timeout(1)
    \/ \E code \in ExitCodes, dec \in BOOLEAN, err \in StderrTexts :
            CompleteUncommitted(1, code, dec, err)
    \/ TimeoutUncommitted(1)
    \/ \E p \in Pids : OrphanExit(p)

SpecStart == Init /\ [][NextStart]_vars

\* The executor: one caller invoking the operations one after the other
NextExec ==
    \/ \E req \in ExecRequests : ExecutorCall(1, req)
    \/ \E code \in ExitCodes, dec \in BOOLEAN, err \in StderrTexts :
            Complete(1, code, dec, err)
    \/ Timeout(1)
    \/ \E p \in Pids : OrphanExit(p)

SpecExec == Init /\ [][NextExec]_vars

\* the application before the executor module is imported
InitConstruct ==
    /\ InitCore
    /\ pathCheck = NoCheck
    /\ InitBus
    /\ InitApi
    /\ executor = NoExecutor
    /\ sanitizeCall = NoSanitize

\* The executor from its construction on: one caller invoking the operations
NextConstruct ==
    \/ \E probe \in Probes : Construct(probe)
    \/ NextExec

SpecConstruct == InitConstruct /\ [][NextConstruct]_vars

\* ---------------------------------------------------------------- scheduler
\* A cron expression "*/p * * * *" is modelled by its period p in minutes.
CronInputs == {2, 3}

\* croniter.croniter(expr, t).get_next(datetime): the first trigger time
\* strictly after t
CronNext(p, t) == ((t \div p) + 1) * p

\* while the scheduler coroutine runs between two suspension points nothing
\* else runs on the event loop
SchedSuspended == sched.pc # "next"

\* time passes
Tick ==
    /\ SchedSuspended
    /\ now < MaxTime
    /\ now' = now + 1
    /\ UNCHANGED <<apiVars, pathCheck, busVars, config_path, task, procs, lastCall, backupJobs, jobs, sched,
                   schedHist>>

\* schedule.py:79-115: POST / by an administrator, with a valid expression
\* and a name no other job has
CreateJob(j, cron, config_file, enabled) ==
    /\ SchedSuspended
    /\ ~jobs[j].exists
    /\ \A i \in JobIds : i < j => jobs[i].exists
    /\ jobs' = [jobs EXCEPT ![j] =
                   [exists |-> TRUE, name |-> [i \in 1..j |-> "x"],
                    enabled |-> enabled, cron |-> cron,
                    repository |-> GoodRepo, config_file |-> config_file,
                    next_run |-> CronNext(cron, now), last_run |-> -1]]
    /\ UNCHANGED <<apiVars, pathCheck, busVars, config_path, task, procs, lastCall, backupJobs, now, sched,
                   schedHist>>

\* schedule.py:381-411: POST /{job_id}/toggle by an administrator
ToggleJob(j) ==
    /\ SchedSuspended
    /\ jobs[j].exists
    /\ jobs' = [jobs EXCEPT ![j].enabled = ~@]
    /\ UNCHANGED <<apiVars, pathCheck, busVars, config_path, task, procs, lastCall, backupJobs, now, sched,
                   schedHist>>

\* schedule.py:493-496: the enabled jobs whose next_run is at or before t,
\* in the order of their ids
RECURSIVE DueFrom(_, _, _)
DueFrom(js, t, j) ==
    IF j > MaxJobs THEN <<>>
    ELSE (IF js[j].exists /\ js[j].enabled /\ js[j].next_run <= t
          THEN <<j>> ELSE <<>>) \o DueFrom(js, t, j + 1)

\* a query that leaves out the filter on the enabled flag
DueJobsAnyFlag(js, t) ==
    SelectSeq([j \in 1..MaxJobs |-> j],
              LAMBDA j : js[j].exists /\ js[j].next_run <= t)

DueJobs(js, t) == DueFrom(js, t, 1)

\* schedule.py:531: asyncio.sleep(60)
Sleep(sc) == [sc EXCEPT !.pc = "sleep", !.wakeAt = now + PollInterval]

\* schedule.py:490-496 and 525-531: a polling pass starts.  Loading the due
\* jobs may fail, which the outer handler logs.
SchedWake(loadOk) ==
    /\ sched.pc = "sleep"
    /\ now >= sched.wakeAt
    /\ IF loadOk /\ DueJobs(jobs, now) # <<>>
       THEN sched' = [pc |-> "next", wakeAt |-> sched.wakeAt,
                      due |-> DueJobs(jobs, now), idx |-> 1, executed |-> {}]
       ELSE sched' = [pc |-> "sleep", wakeAt |-> now + PollInterval,
                      due |-> <<>>, idx |-> 0, executed |-> {}]
    /\ UNCHANGED <<apiVars, pathCheck, busVars, config_path, task, procs, lastCall, backupJobs, now, jobs,
                   schedHist>>

\* a recomputation that starts from the stored next_run instead of the
\* current time
BookkeepFromStale(js, j, t) ==
    [js EXCEPT ![j].last_run = t,
               ![j].next_run = CronNext(js[j].cron, js[j].next_run)]

\* schedule.py:508-515: the bookkeeping of the try block, committed
BookkeepDone(js, j, t) ==
    [js EXCEPT ![j].last_run = t, ![j].next_run = CronNext(js[j].cron, t)]

\* schedule.py:519-523: the bookkeeping of the except block, committed after
\* the failed commit of the try block was rolled back
BookkeepFailed(js, j, t) == [js EXCEPT ![j].last_run = t]

\* the outcomes of the commits of one job: the first commit succeeds; or it
\* raises and the commit of the except block succeeds; or that one raises too
CommitOutcomes == {"committed", "recovered", "raised"}

\* schedule.py:498-531: the loop goes on to the next due job, or the pass ends
Advance(sc) ==
    IF sc.idx < Len(sc.due)
    THEN [sc EXCEPT !.pc = "next", !.idx = @ + 1]
    ELSE Sleep(sc)

\* a loop without the outer handler: the exception raised inside the except
\* block ends the coroutine
AfterJobStopping(j, sc, commit) ==
    CASE commit = "committed" ->
            /\ jobs' = BookkeepDone(jobs, j, now)
            /\ sched' = Advance(sc)
      [] commit = "recovered" ->
            /\ jobs' = BookkeepFailed(jobs, j, now)
            /\ sched' = Advance(sc)
      [] OTHER ->
            /\ jobs' = jobs
            /\ sched' = [sc EXCEPT !.pc = "stopped"]

\* schedule.py:508-528: after run_backup has returned for job j.  An
\* exception raised inside the except block leaves the for loop and is
\* caught by the outer handler.
AfterJob(j, sc, commit) ==
    CASE commit = "committed" ->
            /\ jobs' = BookkeepDone(jobs, j, now)
            /\ sched' = Advance(sc)
      [] commit = "recovered" ->
            /\ jobs' = BookkeepFailed(jobs, j, now)
            /\ sched' = Advance(sc)
      [] OTHER ->
            /\ jobs' = jobs
            /\ sched' = Sleep(sc)

\* schedule.py:498-506: the scheduler runs the backup of the next due job.
\* run_backup returns at once when it rejects a path or cannot launch the
\* process; the scheduler uses the result for its log entry only (line 517).
SchedRunJob ==
    /\ ExecutorExists
    /\ sched.pc = "next"
    /\ LET j == sched.due[sched.idx]
           cmd == RunBackupCommand(jobs[j].repository, jobs[j].config_file,
                                   config_path)
           ran == [sched EXCEPT !.executed = @ \cup {j}]
       IN  /\ schedHist' = [schedHist EXCEPT ![j] =
                               [prevTrigger |-> @.lastTrigger,
                                lastTrigger |-> jobs[j].next_run,
                                last |-> now]]
           /\ \/ /\ ~cmd.ok
                 /\ \E c \in CommitOutcomes : AfterJob(j, ran, c)
                 /\ UNCHANGED <<task, procs>>
              \/ /\ cmd.ok
                 /\ \E e \in LaunchErrors, c \in CommitOutcomes : AfterJob(j, ran, c)
                 /\ UNCHANGED <<task, procs>>
              \/ /\ cmd.ok
                 /\ FreePids # {}
                 /\ procs' = [procs EXCEPT ![NewPid] =
                                 [state |-> "running", op |-> "create",
                                  repo |-> jobs[j].repository,
                                  args |-> cmd.args]]
                 /\ task' = [task EXCEPT ![SchedTask] =
                                 [IdleTask EXCEPT !.kind = "sched",
                                      !.pc = "wait", !.op = "create",
                                      !.repo = jobs[j].repository,
                                      !.proc = NewPid,
                                      !.timeout = cmd.timeout]]
                 /\ sched' = [ran EXCEPT !.pc = "wait"]
                 /\ jobs' = jobs
    /\ UNCHANGED <<apiVars, pathCheck, busVars, config_path, lastCall, backupJobs, now>>

\* borgmatic.py:75-95, schedule.py:508-528: the backup process of the
\* current job exits and run_backup returns; the scheduler resumes
SchedComplete(commit) ==
    /\ sched.pc = "wait"
    /\ procs' = [procs EXCEPT ![task[SchedTask].proc] = FreeProc]
    /\ task' = [task EXCEPT ![SchedTask] = IdleTask]
    /\ AfterJob(sched.due[sched.idx], sched, commit)
    /\ UNCHANGED <<apiVars, pathCheck, busVars, config_path, lastCall, backupJobs, now, schedHist>>

\* borgmatic.py:97-104, schedule.py:508-528: the backup of the current job
\* times out and run_backup returns; the scheduler resumes
SchedTimeout(commit) ==
    /\ sched.pc = "wait"
    /\ procs' = procs
    /\ task' = [task EXCEPT ![SchedTask] = IdleTask]
    /\ AfterJob(sched.due[sched.idx], sched, commit)
    /\ UNCHANGED <<apiVars, pathCheck, busVars, config_path, lastCall, backupJobs, now, schedHist>>

\* a process nobody waits for exits while the scheduler is suspended
SchedOrphanExit(p) == SchedSuspended /\ OrphanExit(p)

\* The scheduler with its administrators
NextSched ==
    \/ Tick
    \/ \E j \in JobIds, c \in CronInputs, f \in {NoneStr, GoodCfg},
          e \in BOOLEAN : CreateJob(j, c, f, e)
    \/ \E j \in JobIds : ToggleJob(j)
    \/ \E ok \in BOOLEAN : SchedWake(ok)
    \/ SchedRunJob
    \/ \E c \in CommitOutcomes : SchedComplete(c)
    \/ \E c \in CommitOutcomes : SchedTimeout(c)
    \/ \E p \in Pids : SchedOrphanExit(p)

SpecSched == Init /\ [][NextSched]_vars

\* ------------------------------------------------------------ schedule API
\* the request bodies: names, cron expressions, and Optional fields as
\* sequences of at most one value (<<>> is None)
NameInputs == {<<"a">>, <<"b">>}
CronExprs == {"*/2 * * * *", "*/3 * * * *", "61 * * * *"}
OptionalNames == {<<>>} \cup NameInputs
OptionalCrons == {<<>>} \cup {<<e>> : e \in CronExprs}
OptionalFlags == {<<>>, <<FALSE>>}

\* croniter.croniter(expr, t) raises on an expression it cannot parse
\* (a minute field of 61)
CronValid(expr) == expr \in {"*/2 * * * *", "*/3 * * * *"}

\* the period in minutes of a valid expression
CronPeriod(expr) == IF expr = "*/2 * * * *" THEN 2 ELSE 3

\* the answer of a handler, remembered as the last one
Response(op, j, admin, name, cron, prev, status, detail) ==
    [op |-> op, job |-> j, admin |-> admin, name |-> name, cron |-> cron,
     prev |-> prev, status |-> status, detail |-> detail]

\* a session that stored a changed object although the request was rejected
Flushed(js, j, staged) == [js EXCEPT ![j] = staged]

\* database.py:23-29: get_db closes the session when the handler raises;
\* the changes made to the loaded object and not committed are dropped
Rollback(js, j, staged) == js

\* a recomputation that starts from the next_run the job had stored
UpdatedScheduleFromPrior(rec, expr, t) ==
    [rec EXCEPT !.cron = CronPeriod(expr),
                !.next_run = CronNext(CronPeriod(expr), rec.next_run)]

\* schedule.py:318-320: the new expression and its first trigger after now
UpdatedSchedule(rec, expr, t) ==
    [rec EXCEPT !.cron = CronPeriod(expr),
                !.next_run = CronNext(CronPeriod(expr), t)]

FreeJobIds == {j \in JobIds : ~jobs[j].exists}

\* a name check that is made for new jobs only
NameHeldOnCreate(js, name, self) ==
    self = 0 /\ \E i \in JobIds : js[i].exists /\ js[i].name = name

\* schedule.py:97 and 306-309: a stored job other than `self` has the name
\* (self is 0 for a job that is not stored yet)
NameHeld(js, name, self) ==
    \E i \in JobIds \ {self} : js[i].exists /\ js[i].name = name

\* schedule.py:79-135: POST /
CreateScheduledJob(admin, name, expr, enabled, commitOk) ==
    /\ SchedSuspended
    /\ LET answer(j, status, detail) ==
               Response("create", j, admin, name, <<expr>>, -1, status, detail)
       IN  IF ~admin
           THEN jobs' = jobs /\ lastReq' = answer(0, 403, "admin")
           ELSE IF ~CronValid(expr)
           THEN jobs' = jobs /\ lastReq' = answer(0, 400, "cron")
           ELSE IF NameHeld(jobs, name, 0)
           THEN jobs' = jobs /\ lastReq' = answer(0, 400, "name")
           ELSE /\ FreeJobIds # {}
                /\ LET j == CHOOSE i \in FreeJobIds :
                                \A k \in FreeJobIds : i <= k
                   IN  IF commitOk
                       THEN /\ jobs' = [jobs EXCEPT ![j] =
                                   [exists |-> TRUE, name |-> name,
                                    enabled |-> enabled,
                                    cron |-> CronPeriod(expr),
                                    repository |-> GoodRepo,
                                    config_file |-> GoodCfg,
                                    next_run |-> CronNext(CronPeriod(expr), now),
                                    last_run |-> -1]]
                            /\ lastReq' = answer(j, 200, "")
                       ELSE /\ jobs' = jobs
                            /\ lastReq' = answer(0, 500, "commit")
    /\ UNCHANGED <<statusCall, background, toolVars,
               pathCheck, busVars, config_path,
                   task, procs, lastCall, backupJobs, now, sched, schedHist>>

\* schedule.py:288-349: PUT /{job_id}.  The handler changes the loaded
\* object field by field and commits at the end.
UpdateScheduledJob(j, admin, name, cron, enabled, commitOk) ==
    /\ SchedSuspended
    /\ LET answer(status, detail) ==
               Response("update", j, admin, name, cron, jobs[j].next_run,
                        status, detail)
           named == IF name # <<>> THEN [jobs[j] EXCEPT !.name = name]
                    ELSE jobs[j]
           timed == IF cron # <<>> /\ CronValid(cron[1])
                    THEN UpdatedSchedule(named, cron[1], now) ELSE named
           flagged == IF enabled # <<>>
                      THEN [timed EXCEPT !.enabled = enabled[1]] ELSE timed
       IN  IF ~admin
           THEN jobs' = jobs /\ lastReq' = answer(403, "admin")
           ELSE IF ~jobs[j].exists
           THEN jobs' = jobs /\ lastReq' = answer(404, "job")
           ELSE IF name # <<>> /\ NameHeld(jobs, name, j)
           THEN jobs' = jobs /\ lastReq' = answer(400, "name")
           ELSE IF cron # <<>> /\ ~CronValid(cron[1])
           THEN /\ jobs' = Rollback(jobs, j, named)
                /\ lastReq' = answer(400, "cron")
           ELSE IF commitOk
           THEN /\ jobs' = [jobs EXCEPT ![j] = flagged]
                /\ lastReq' = answer(200, "")
           ELSE /\ jobs' = Rollback(jobs, j, flagged)
                /\ lastReq' = answer(500, "commit")
    /\ UNCHANGED <<statusCall, background, toolVars,
               pathCheck, busVars, config_path,
                   task, procs, lastCall, backupJobs, now, sched, schedHist>>

\* schedule.py:351-379: DELETE /{job_id}
DeleteScheduledJob(j, admin, commitOk) ==
    /\ SchedSuspended
    /\ LET answer(status, detail) ==
               Response("delete", j, admin, <<>>, <<>>, -1, status, detail)
       IN  IF ~admin
           THEN jobs' = jobs /\ lastReq' = answer(403, "admin")
           ELSE IF ~jobs[j].exists
           THEN jobs' = jobs /\ lastReq' = answer(404, "job")
           ELSE IF commitOk
           THEN /\ jobs' = [jobs EXCEPT ![j] = NoJob]
                /\ lastReq' = answer(200, "")
           ELSE /\ jobs' = Rollback(jobs, j, NoJob)
                /\ lastReq' = answer(500, "commit")
    /\ UNCHANGED <<statusCall, background, toolVars, pathCheck, busVars,
                   config_path, task, procs, lastCall, backupJobs, now, sched,
                   schedHist>>

\* the answer of the toggle handler; `at` is the time it was given
ToggleResponse(j, admin, status, detail) ==
    [at |-> now]
        @@ Response("toggle", j, admin, <<>>, <<>>, jobs[j].next_run, status,
                    detail)

\* a toggle handler that does not look at the is_admin flag
ToggleWithoutAdminCheck(j, admin, commitOk) ==
    /\ SchedSuspended
    /\ IF ~jobs[j].exists
       THEN jobs' = jobs /\ lastReq' = ToggleResponse(j, admin, 404, "job")
       ELSE IF commitOk
       THEN /\ jobs' = [jobs EXCEPT ![j].enabled = ~@]
            /\ lastReq' = ToggleResponse(j, admin, 200, "")
       ELSE /\ jobs' = Rollback(jobs, j, [jobs[j] EXCEPT !.enabled = ~@])
            /\ lastReq' = ToggleResponse(j, admin, 500, "commit")
    /\ UNCHANGED <<statusCall, background, toolVars, pathCheck, busVars,
                   config_path, task, procs, lastCall, backupJobs, now, sched,
                   schedHist>>

\* schedule.py:381-411: POST /{job_id}/toggle.  The handler flips the flag
\* and commits; next_run is left as it is stored.
ToggleScheduledJob(j, admin, commitOk) ==
    /\ SchedSuspended
    /\ IF ~admin
       THEN jobs' = jobs /\ lastReq' = ToggleResponse(j, admin, 403, "admin")
       ELSE IF ~jobs[j].exists
       THEN jobs' = jobs /\ lastReq' = ToggleResponse(j, admin, 404, "job")
       ELSE IF commitOk
       THEN /\ jobs' = [jobs EXCEPT ![j].enabled = ~@]
            /\ lastReq' = ToggleResponse(j, admin, 200, "")
       ELSE /\ jobs' = Rollback(jobs, j, [jobs[j] EXCEPT !.enabled = ~@])
            /\ lastReq' = ToggleResponse(j, admin, 500, "commit")
    /\ UNCHANGED <<statusCall, background, toolVars, pathCheck, busVars,
                   config_path, task, procs, lastCall, backupJobs, now, sched,
                   schedHist>>

\* The schedule API: administrators creating, updating and deleting jobs,
\* their requests failing at the commit, and requests of users who are not
\* administrators
NextJobs ==
    \/ Tick
    \/ \E name \in NameInputs, expr \in CronExprs, enabled \in BOOLEAN :
            CreateScheduledJob(TRUE, name, expr, enabled, TRUE)
    \/ \E j \in JobIds, name \in OptionalNames, cron \in OptionalCrons,
          enabled \in OptionalFlags :
            UpdateScheduledJob(j, TRUE, name, cron, enabled, TRUE)
    \/ \E name \in NameInputs, admin \in BOOLEAN :
            CreateScheduledJob(admin, name, "*/2 * * * *", TRUE, ~admin)
    \/ \E j \in JobIds, cron \in OptionalCrons, admin \in BOOLEAN :
            UpdateScheduledJob(j, admin, <<>>, cron, <<>>, ~admin)
    \/ \E j \in JobIds, admin \in BOOLEAN, ok \in BOOLEAN :
            DeleteScheduledJob(j, admin, ok)

SpecJobs == InitDefault /\ [][NextJobs]_vars

\* schedule.py:435-437: the bookkeeping of run-now after run_backup returned
BookkeepRunNow(js, j, t) == [js EXCEPT ![j].last_run = t]

\* schedule.py:430-450: run_backup has returned to run-now; the handler
\* stores last_run and answers, or its commit raises and it answers 500
RunNowReturn(j, commitOk) ==
    IF commitOk
    THEN /\ jobs' = BookkeepRunNow(jobs, j, now)
         /\ lastReq' = Response("run_now", j, TRUE, <<>>, <<>>, -1, 200, "")
    ELSE /\ jobs' = Rollback(jobs, j, BookkeepRunNow(jobs, j, now)[j])
         /\ lastReq' = Response("run_now", j, TRUE, <<>>, <<>>, -1, 500,
                                "commit")

\* schedule.py:413-432: POST /{job_id}/run-now, up to the return of
\* run_backup or to its suspension on the backup process
RunNowStart(t, j, admin) ==
    /\ ExecutorExists
    /\ SchedSuspended
    /\ task[t].pc = "idle"
    /\ IF ~admin
       THEN /\ lastReq' = Response("run_now", j, admin, <<>>, <<>>, -1, 403,
                                   "admin")
            /\ UNCHANGED <<jobs, task, procs>>
       ELSE IF ~jobs[j].exists
       THEN /\ lastReq' = Response("run_now", j, admin, <<>>, <<>>, -1, 404,
                                   "job")
            /\ UNCHANGED <<jobs, task, procs>>
       ELSE LET cmd == RunBackupCommand(jobs[j].repository,
                                        jobs[j].config_file, config_path)
            IN  \/ /\ ~cmd.ok
                   /\ \E ok \in BOOLEAN : RunNowReturn(j, ok)
                   /\ UNCHANGED <<task, procs>>
                \/ /\ cmd.ok
                   /\ \E e \in LaunchErrors, ok \in BOOLEAN : RunNowReturn(j, ok)
                   /\ UNCHANGED <<task, procs>>
                \/ /\ cmd.ok
                   /\ FreePids # {}
                   /\ procs' = [procs EXCEPT ![NewPid] =
                                   [state |-> "running", op |-> "create",
                                    repo |-> jobs[j].repository,
                                    args |-> cmd.args]]
                   /\ task' = [task EXCEPT ![t] =
                                   [IdleTask EXCEPT !.kind = "run_now",
                                        !.pc = "wait", !.op = "create",
                                        !.repo = jobs[j].repository,
                                        !.proc = NewPid,
                                        !.timeout = cmd.timeout,
                                        !.job = j]]
                   /\ UNCHANGED <<jobs, lastReq>>
    /\ UNCHANGED <<statusCall, background, toolVars,
               pathCheck, busVars, config_path,
                   lastCall, backupJobs, now, sched, schedHist>>

\* borgmatic.py:75-95, schedule.py:435-450: the backup process of a run-now
\* exits, run_backup returns and the handler resumes
RunNowComplete(t, commitOk) ==
    /\ task[t].kind = "run_now"
    /\ task[t].pc = "wait"
    /\ procs[task[t].proc].state = "running"
    /\ procs' = [procs EXCEPT ![task[t].proc] = FreeProc]
    /\ task' = [task EXCEPT ![t] = IdleTask]
    /\ RunNowReturn(task[t].job, commitOk)
    /\ UNCHANGED <<statusCall, background, toolVars,
               pathCheck, busVars, config_path,
                   lastCall, backupJobs, now, sched, schedHist>>

\* borgmatic.py:97-104, schedule.py:435-450: the backup of a run-now times
\* out, run_backup returns its timeout result and the handler resumes
RunNowTimeout(t, commitOk) ==
    /\ task[t].kind = "run_now"
    /\ task[t].pc = "wait"
    /\ procs[task[t].proc].state = "running"
    /\ procs' = procs
    /\ task' = [task EXCEPT ![t] = IdleTask]
    /\ RunNowReturn(task[t].job, commitOk)
    /\ UNCHANGED <<statusCall, background, toolVars,
               pathCheck, busVars, config_path,
                   lastCall, backupJobs, now, sched, schedHist>>

\* Run-now: jobs created by an administrator and run on demand
NextRunNow ==
    \/ Tick
    \/ \E j \in JobIds, c \in CronInputs, f \in {NoneStr, GoodCfg} :
            CreateJob(j, c, f, TRUE)
    \/ \E j \in JobIds, admin \in BOOLEAN : RunNowStart(1, j, admin)
    \/ \E ok \in BOOLEAN : RunNowComplete(1, ok)
    \/ \E ok \in BOOLEAN : RunNowTimeout(1, ok)
    \/ \E p \in Pids : SchedOrphanExit(p)

SpecRunNow == InitDefault /\ [][NextRunNow]_vars

\* The five handlers of the schedule API that change or run a job, called
\* by administrators and by other users
NextAdmin ==
    \/ \E name \in NameInputs, admin \in BOOLEAN :
            CreateScheduledJob(admin, name, "*/2 * * * *", TRUE, TRUE)
    \/ \E j \in JobIds, name \in OptionalNames, admin \in BOOLEAN :
            UpdateScheduledJob(j, admin, name, <<>>, <<>>, TRUE)
    \/ \E j \in JobIds, admin \in BOOLEAN : DeleteScheduledJob(j, admin, TRUE)
    \/ \E j \in JobIds, admin \in BOOLEAN : ToggleScheduledJob(j, admin, TRUE)
    \/ \E j \in JobIds, admin \in BOOLEAN : RunNowStart(1, j, admin)
    \/ \E ok \in BOOLEAN : RunNowComplete(1, ok)
    \/ \E ok \in BOOLEAN : RunNowTimeout(1, ok)
    \/ \E p \in Pids : SchedOrphanExit(p)

SpecAdmin == Init /\ [][NextAdmin]_vars

\* The scheduler and the toggle handler: jobs created disabled, with a
\* configuration file of their own, switched on and off by an administrator
\* while the scheduler polls
NextArm ==
    \/ Tick
    \/ \E j \in JobIds, c \in CronInputs : CreateJob(j, c, GoodCfg, FALSE)
    \/ \E j \in JobIds : ToggleScheduledJob(j, TRUE, TRUE)
    \/ \E ok \in BOOLEAN : SchedWake(ok)
    \/ SchedRunJob
    \/ \E c \in CommitOutcomes : SchedComplete(c)
    \/ \E c \in CommitOutcomes : SchedTimeout(c)
    \/ \E p \in Pids : SchedOrphanExit(p)

SpecArm == InitDefault /\ [][NextArm]_vars

\* --------------------------------------------------------- repository status
\* what the lookup of one configured repository comes to: list_archives
\* succeeds with archives, succeeds with none, succeeds with output that
\* json.loads or the code reading it rejects, returns a failure result, or
\* the entry has no "path" key (KeyError inside the try); or the entry is
\* not a mapping (repo.get raises before the try)
Lookups ==
    {"archives", "empty", "bad_output", "failure", "no_path", "not_a_mapping"}

RepoLists == UNION {[1..n -> Lookups] : n \in 0..MaxRepos}

\* borgmatic.py:437-460: the status one repository is reported with
RepoStatus(lookup) ==
    CASE lookup = "archives" -> "healthy"
      [] lookup \in {"empty", "failure"} -> "unknown"
      [] OTHER -> "error"

\* borgmatic.py:426-468: get_repository_status
GetRepositoryStatus(configOk, lookups) ==
    IF ~configOk
    THEN [success |-> FALSE, repositories |-> <<>>]
    ELSE IF \E i \in 1..Len(lookups) : lookups[i] = "not_a_mapping"
    THEN [success |-> FALSE, repositories |-> <<>>]
    ELSE [success |-> TRUE,
          repositories |-> [i \in 1..Len(lookups) |-> RepoStatus(lookups[i])]]

\* one call of get_repository_status on a configuration
StatusCall(configOk, lookups) ==
    /\ ExecutorExists
    /\ ~statusCall.called
    /\ statusCall' = [called |-> TRUE, config |-> configOk,
                      lookups |-> lookups,
                      result |-> GetRepositoryStatus(configOk, lookups)]
    /\ UNCHANGED <<lastReq, background, toolVars,
               pathCheck, busVars, coreVars>>

NextStatus == \E ok \in BOOLEAN, l \in RepoLists : StatusCall(ok, l)

SpecStatus == InitDefault /\ [][NextStatus]_vars

\* -------------------------------------------------------------- application
\* the coroutines the startup handlers pass to asyncio.create_task
\* (events.py:255-256; main.py:79-87 creates the first user only)
StartedCoroutines == {"periodic_system_status", "monitor_backup_jobs"}

\* the check_scheduled_jobs coroutine before anything has started it
NotStarted == [IdleSched EXCEPT !.pc = "not_started"]

\* the application before its startup handlers ran
InitApp ==
    /\ config_path = DefaultConfigPath
    /\ task = [t \in TaskIds |-> IdleTask]
    /\ procs = [p \in Pids |-> FreeProc]
    /\ lastCall = NoCall
    /\ backupJobs = <<>>
    /\ now = 0
    /\ jobs = [j \in JobIds |-> NoJob]
    /\ sched = NotStarted
    /\ schedHist = [j \in JobIds |-> NoHist]
    /\ pathCheck = NoCheck
    /\ InitBus
    /\ InitApi
    /\ InitTool

\* main.py:79-87 and events.py:251-257: the startup handlers run
Startup ==
    /\ background = {}
    /\ background' = StartedCoroutines
    /\ sched' = IF "check_scheduled_jobs" \in StartedCoroutines
                THEN IdleSched ELSE sched
    /\ UNCHANGED <<lastReq, statusCall, toolVars,
               pathCheck, busVars, config_path, task,
                   procs, lastCall, backupJobs, now, jobs, schedHist>>

\* The application from its start: time passes and administrators create
\* and toggle jobs.  The steps of check_scheduled_jobs (SchedWake and the
\* actions after it) are those of a started coroutine; none is enabled
\* while sched.pc is "not_started".
NextApp ==
    \/ Startup
    \/ Tick
    \/ \E j \in JobIds, c \in CronInputs, f \in {NoneStr, GoodCfg},
          e \in BOOLEAN : background # {} /\ CreateJob(j, c, f, e)
    \/ \E j \in JobIds : background # {} /\ ToggleJob(j)

\* startup handlers run when the server starts, time does not stop, and the
\* application does not halt while it can take a step
SpecApp ==
    /\ InitApp
    /\ [][NextApp]_vars
    /\ WF_vars(Startup)
    /\ WF_vars(Tick)
    /\ WF_vars(NextApp)

\* ---------------------------------------------------------------- event bus
\* self.connections is a dict: a sequence of (user id, queue) pairs in
\* insertion order with at most one pair per key.  A queue is named by the
\* stream whose add_connection call created it.

\* a dict that appends a pair for a key it already holds
DictSetAppend(conn, u, q) == Append(conn, <<u, q>>)

\* events.py:32: self.connections[user_id] = queue
DictSet(conn, u, q) ==
    IF \E i \in 1..Len(conn) : conn[i][1] = u
    THEN [i \in 1..Len(conn) |-> IF conn[i][1] = u THEN <<u, q>> ELSE conn[i]]
    ELSE Append(conn, <<u, q>>)

\* events.py:39-40: del self.connections[user_id], when the key is present
DictDel(conn, u) == SelectSeq(conn, LAMBDA c : c[1] # u)

\* the queues registered under user id u
QueuesOf(conn, u) == {conn[i][2] : i \in {k \in 1..Len(conn) : conn[k][1] = u}}

\* the second component of every pair, in order
RECURSIVE Values(_)
Values(conn) ==
    IF conn = <<>> THEN <<>> ELSE <<Head(conn)[2]>> \o Values(Tail(conn))

\* a targeted event that is put on every registered queue
PublishTargetsAll(user_id, conn) == Values(conn)

\* events.py:52-65: the queues broadcast_event puts the event on, in the
\* order it visits them: that of user_id when one is given (a truthy
\* string) and registered, every registered queue otherwise
PublishTargets(user_id, conn) ==
    IF user_id # NoneStr
    THEN Values(SelectSeq(conn, LAMBDA c : c[1] = user_id))
    ELSE Values(conn)

\* a queue that holds one event at most
QueueFullAtOne(q) == Len(q) >= 1

\* asyncio.Queue.full(): never for maxsize 0
QueueFull(q) == QueueMaxSize > 0 /\ Len(q) >= QueueMaxSize

\* a put that stores the event twice
EnqueueTwice(q, e) == Append(Append(q, e), e)

\* asyncio.Queue.put on a queue that is not full
Enqueue(q, e) == Append(q, e)

\* a get that takes the newest event
DequeueNewest(q) == [event |-> q[Len(q)], rest |-> SubSeq(q, 1, Len(q) - 1)]

\* asyncio.Queue.get on a queue that is not empty
Dequeue(q) == [event |-> Head(q), rest |-> Tail(q)]

\* events.py:52-65: the puts of one broadcast_event call from target i on.
\* A put on a full queue suspends the caller, which holds the lock.
RECURSIVE PutFrom(_, _, _, _)
PutFrom(qs, targets, i, e) ==
    IF i > Len(targets) THEN [queues |-> qs, blockedAt |-> 0]
    ELSE IF QueueFull(qs[targets[i]]) THEN [queues |-> qs, blockedAt |-> i]
    ELSE PutFrom([qs EXCEPT ![targets[i]] = Enqueue(@, e)], targets, i + 1, e)

\* the lock after the puts: released at the end of the "async with" block,
\* or still held by the caller suspended in a put
LockAfter(res, targets, call) ==
    IF res.blockedAt = 0 THEN FreeLock
    ELSE [held |-> TRUE, waiting |-> lock.waiting, call |-> call,
          targets |-> targets, at |-> res.blockedAt]

\* "async with self._lock" while the lock is held: the caller is suspended
\* until the lock is released, and the call has no effect before that
SuspendOnLock ==
    /\ lock.held
    /\ lock' = [lock EXCEPT !.waiting = TRUE]
    /\ UNCHANGED <<connections, queues, streams, published, lastPublish>>

\* events.py:79-89 and 28-34: a stream of user u starts.  add_connection
\* creates a queue and stores it under the user id; the generator sends the
\* connection_established message and waits on the queue.
Connect(s, u) ==
    /\ streams[s].pc = "idle"
    /\ \A r \in Streams : r < s => streams[r].pc # "idle"
    /\ \/ SuspendOnLock
       \/ /\ ~lock.held
          /\ connections' = DictSet(connections, u, s)
          /\ queues' = [queues EXCEPT ![s] = <<>>]
          /\ streams' =
                [r \in Streams |->
                    IF r = s
                    THEN [pc |-> "wait", user |-> u, subAt |-> seconds,
                          subSeq |-> published, waitSince |-> seconds,
                          delivered |-> <<>>, keepalives |-> 0, unregAt |-> -1]
                    ELSE IF r \in QueuesOf(connections, u)
                         THEN [streams[r] EXCEPT !.unregAt = published]
                         ELSE streams[r]]
          /\ UNCHANGED <<published, lastPublish, lock>>
    /\ UNCHANGED <<seconds, pathCheck, apiVars, coreVars>>

\* events.py:105-106 and 36-41: the client of stream s goes away; the
\* generator is closed and its finally block calls remove_connection
Disconnect(s) ==
    /\ streams[s].pc = "wait"
    /\ \/ SuspendOnLock
       \/ /\ ~lock.held
          /\ connections' = DictDel(connections, streams[s].user)
          /\ streams' =
                [r \in Streams |->
                    LET left == IF r \in QueuesOf(connections, streams[s].user)
                                THEN [streams[r] EXCEPT !.unregAt = published]
                                ELSE streams[r]
                    IN  IF r = s THEN [left EXCEPT !.pc = "closed"] ELSE left]
          /\ UNCHANGED <<queues, published, lastPublish, lock>>
    /\ UNCHANGED <<seconds, pathCheck, apiVars, coreVars>>

\* events.py:43-65: broadcast_event(event_type, data, user_id)
Publish(user_id) ==
    /\ published < MaxEvents
    /\ \/ SuspendOnLock
       \/ /\ ~lock.held
          /\ LET call == [id |-> published + 1, target |-> user_id,
                          conn |-> connections, raised |-> FALSE]
                 targets == PublishTargets(user_id, connections)
                 res == PutFrom(queues, targets, 1, call.id)
             IN  /\ queues' = res.queues
                 /\ published' = call.id
                 /\ lock' = LockAfter(res, targets, call)
                 /\ lastPublish' = IF res.blockedAt = 0 THEN call
                                   ELSE lastPublish
          /\ UNCHANGED <<connections, streams>>
    /\ UNCHANGED <<seconds, pathCheck, apiVars, coreVars>>

\* events.py:95-96: queue.get() returns the oldest event of the queue of
\* stream s and the generator sends it.  A get frees a slot: a
\* broadcast_event call suspended in a put on this queue goes on.
Consume(s) ==
    /\ streams[s].pc = "wait"
    /\ queues[s] # <<>>
    /\ LET d == Dequeue(queues[s])
           qs == [queues EXCEPT ![s] = d.rest]
           wake == lock.held /\ lock.targets[lock.at] = s
           res == IF wake
                  THEN PutFrom(qs, lock.targets, lock.at, lock.call.id)
                  ELSE [queues |-> qs, blockedAt |-> 0]
       IN  /\ queues' = res.queues
           /\ lock' = IF wake THEN LockAfter(res, lock.targets, lock.call)
                      ELSE lock
           /\ lastPublish' = IF wake /\ res.blockedAt = 0 THEN lock.call
                             ELSE lastPublish
           /\ streams' = [streams EXCEPT ![s].delivered = Append(@, d.event),
                                         ![s].waitSince = seconds]
    /\ UNCHANGED <<connections, published, seconds, pathCheck, apiVars, coreVars>>

\* a wait that lasts two keepalive windows
KeepaliveDueLate(s) ==
    /\ streams[s].pc = "wait"
    /\ queues[s] = <<>>
    /\ seconds - streams[s].waitSince >= 2 * KeepaliveWindow

\* the wait of stream s on its queue has lasted the keepalive window
KeepaliveDue(s) ==
    /\ streams[s].pc = "wait"
    /\ queues[s] = <<>>
    /\ seconds - streams[s].waitSince >= KeepaliveWindow

\* events.py:97-99: wait_for times out; the generator sends the keepalive
\* comment and waits on the queue again
Keepalive(s) ==
    /\ KeepaliveDue(s)
    /\ streams' = [streams EXCEPT ![s].keepalives = @ + 1,
                                  ![s].waitSince = seconds]
    /\ UNCHANGED <<connections, queues, published, lastPublish, lock, seconds,
                   pathCheck, apiVars, coreVars>>

\* time passes; a wait_for timeout fires when it is due
TickSeconds ==
    /\ seconds < MaxSeconds
    /\ \A s \in Streams : ~KeepaliveDue(s)
    /\ seconds' = seconds + 1
    /\ UNCHANGED <<connections, queues, streams, published, lastPublish, lock,
                   pathCheck, apiVars, coreVars>>

\* The event bus with its streams and its publishers
NextBus ==
    \/ \E s \in Streams, u \in Users : Connect(s, u)
    \/ \E s \in Streams : Disconnect(s)
    \/ \E u \in Users \cup {NoneStr} : Publish(u)
    \/ \E s \in Streams : Consume(s)

SpecBus == InitDefault /\ [][NextBus]_vars

\* One stream and its publishers, with the clock
NextStream ==
    \/ \E u \in Users : Connect(1, u)
    \/ Disconnect(1)
    \/ \E u \in Users \cup {NoneStr} : Publish(u)
    \/ Consume(1)
    \/ Keepalive(1)
    \/ TickSeconds

SpecStream == InitDefault /\ [][NextStream]_vars

\* ------------------------------------------------------------ path validation
\* One representative of every class of character _validate_path tells
\* apart: letters, a digit, the separators of the allow-list, the six
\* dangerous characters, a blank and a newline.
PathAlphabet ==
    {"a", "Z", "7", "/", ".", "-", "_",
     ";", "&", "|", BackTick, "$", BackSlash, " ", NewLine}

\* the strings of at most MaxPathLen characters
PathInputs == UNION {[1..n -> PathAlphabet] : n \in 0..MaxPathLen}

InitValidate ==
    /\ InitCore
    /\ config_path = DefaultConfigPath
    /\ pathCheck \in {[NoCheck EXCEPT !.path = p] : p \in PathInputs}
    /\ InitBus
    /\ InitApi
    /\ InitTool

\* arguments longer than the limit of _sanitize_arg: MaxArgLen + d or twice
\* MaxArgLen characters, every m-th of them the character c
LongInputs ==
    {[i \in 1..n |-> IF i % m = 0 THEN c ELSE "a"] :
        n \in {MaxArgLen, MaxArgLen + 1, 2 * MaxArgLen},
        m \in {2, 7, MaxArgLen + 1},
        c \in {";", "$", BackSlash, "/"}}

SanitizeInputs == PathInputs \cup LongInputs

InitSanitize ==
    /\ InitCore
    /\ config_path = DefaultConfigPath
    /\ pathCheck = NoCheck
    /\ InitBus
    /\ InitApi
    /\ executor = ReadyExecutor
    /\ sanitizeCall \in {[NoSanitize EXCEPT !.arg = a] : a \in SanitizeInputs}

\* borgmatic.py:40-49: _sanitize_arg is called on the argument
SanitizeCall ==
    /\ ~sanitizeCall.called
    /\ sanitizeCall' = [sanitizeCall EXCEPT !.called = TRUE,
                                            !.result = SanitizeArg(sanitizeCall.arg)]
    /\ UNCHANGED <<lastReq, statusCall, background, executor, pathCheck,
                   busVars, coreVars>>

NextSanitize == SanitizeCall

SpecSanitize == InitSanitize /\ [][NextSanitize]_vars

\* borgmatic.py:22-38: _validate_path is called on the argument
ValidateCall ==
    /\ ~pathCheck.called
    /\ pathCheck' = [pathCheck EXCEPT !.called = TRUE,
                                      !.valid = ValidatePath(pathCheck.path)]
    /\ UNCHANGED <<apiVars, busVars, config_path, task, procs, lastCall,
                   backupJobs, now, jobs, sched, schedHist>>

NextValidate == ValidateCall

SpecValidate == InitValidate /\ [][NextValidate]_vars

\* ------------------------------------------------------------------- claims

\* C1: while a run_backup call for a repository is in flight no second
\* backup process for the same repository is started: no two callers wait
\* on a backup process of the same repository at the same time.
C1_OneBackupPerRepository ==
    \A t1 \in TaskIds, t2 \in TaskIds :
        (/\ t1 # t2
         /\ task[t1].pc = "wait" /\ task[t1].op = "create"
         /\ task[t2].pc = "wait" /\ task[t2].op = "create")
        => task[t1].repo # task[t2].repo

\* C2: the scheduler executes a job once per trigger: between two
\* executions of a job by the scheduler a cron trigger time later than the
\* trigger the first execution served has been reached.
C2_OncePerTrigger ==
    \A j \in JobIds :
        schedHist[j].prevTrigger >= 0
        => CronNext(jobs[j].cron, schedHist[j].prevTrigger) <= schedHist[j].last

\* C3: when a polling pass has ended, every due job it loaded has been
\* executed in it, whatever failed for the other jobs of the pass.
C3_PassRunsEveryDueJob ==
    sched.pc = "sleep"
    => \A i \in 1..Len(sched.due) : sched.due[i] \in sched.executed

\* C4: no external process runs with a user-supplied argument that
\* validate rejects.
C4_OnlyValidatedArguments ==
    \A p \in Pids :
        procs[p].state = "running"
        => \A i \in 1..Len(procs[p].args) : ValidatePath(procs[p].args[i])

\* C5: once a BackupJobRun record is in a terminal status, no step changes
\* its status again.
C5_TerminalStatusIsFinal ==
    [][\A r \in 1..Len(backupJobs) :
          backupJobs[r].status \in Terminal
          => backupJobs'[r].status = backupJobs[r].status]_vars

\* C6: at most one BackupJobRun record with status running exists per
\* repository.
C6_OneRunningRecordPerRepository ==
    \A r1 \in 1..Len(backupJobs), r2 \in 1..Len(backupJobs) :
        (/\ r1 # r2
         /\ backupJobs[r1].status = "running"
         /\ backupJobs[r2].status = "running")
        => backupJobs[r1].repository # backupJobs[r2].repository

\* C7: a command still running at its timeout yields a returned result with
\* success false, exit code -1 and a stderr text that carries the timeout
\* of the call.
C7_TimeoutResult ==
    lastCall.outcome = "timeout"
    => /\ ~lastCall.result.raised
       /\ lastCall.result.success = FALSE
       /\ lastCall.result.return_code = -1
       /\ Len(lastCall.result.stderr) = 3
       /\ lastCall.result.stderr[2] = lastCall.timeout

C7_Witness ==
    /\ lastCall.outcome = "timeout"
    /\ lastCall.timeout = ValidateConfigTimeout
    /\ lastCall.procRunning

\* C8: when the timed-out result is returned, the spawned process is no
\* longer running.
C8_TimedOutProcessTerminated ==
    lastCall.outcome = "timeout" => ~lastCall.procRunning

\* C9: a command that exits non-zero, cannot be launched or times out is
\* never raised to the caller: the call returns a result with success false
\* and the captured or the synthetic stderr.
C9_FailuresAreReturned ==
    /\ (lastCall.outcome = "exited" /\ lastCall.exitCode # 0)
       => /\ ~lastCall.result.raised
          /\ lastCall.result.success = FALSE
          /\ lastCall.result.stderr = <<lastCall.stderrText>>
    /\ lastCall.outcome = "launch_failed"
       => /\ ~lastCall.result.raised
          /\ lastCall.result.success = FALSE
          /\ Len(lastCall.result.stderr) = 1
          /\ lastCall.result.stderr[1] \in LaunchErrors
    /\ lastCall.outcome \in {"timeout", "decode_failed"}
       => /\ ~lastCall.result.raised
          /\ lastCall.result.success = FALSE
          /\ lastCall.result.stderr # <<>>

C9_Witness ==
    /\ lastCall.outcome = "launch_failed"
    /\ lastCall.result.stderr = <<"PermissionError">>

\* C10: for a process that ran to completion the success flag is true
\* exactly when the exit code is 0, and the result carries the process's
\* exit code.
C10_SuccessIffExitZero ==
    lastCall.outcome \in {"exited", "decode_failed"}
    => /\ lastCall.result.success = (lastCall.exitCode = 0)
       /\ lastCall.result.return_code = lastCall.exitCode

\* the characters the allow-list of the specification names
AllowListChars == Lower \cup Upper \cup Digits \cup {"/", ".", "-", "_"}

\* the shell metacharacters the specification names
MetaChars == {";", "&", "|", BackTick, "$", BackSlash}

ContainsDotDot(s) == \E i \in 1..(Len(s) - 1) : SubSeq(s, i, i + 1) = <<".", ".">>

\* C11: validate returns false for the empty string and for every string
\* that contains a shell metacharacter or the segment "..", starts with "/"
\* or contains a character outside the allow-list.
C11_RejectsEveryUnsafePath ==
    (/\ pathCheck.called
     /\ \/ pathCheck.path = <<>>
        \/ \E i \in 1..Len(pathCheck.path) : pathCheck.path[i] \in MetaChars
        \/ ContainsDotDot(pathCheck.path)
        \/ pathCheck.path[1] = "/"
        \/ \E i \in 1..Len(pathCheck.path) :
                pathCheck.path[i] \notin AllowListChars)
    => ~pathCheck.valid

\* C12: validate returns true for every non-empty relative path made only
\* of characters of the allow-list that contains no "..".
C12_AcceptsEverySafePath ==
    (/\ pathCheck.called
     /\ pathCheck.path # <<>>
     /\ \A i \in 1..Len(pathCheck.path) : pathCheck.path[i] \in AllowListChars
     /\ ~ContainsDotDot(pathCheck.path)
     /\ pathCheck.path[1] # "/")
    => pathCheck.valid

C12_Witness ==
    /\ pathCheck.called
    /\ pathCheck.path = <<"a", "/", "_">>
    /\ pathCheck.valid

\* every event ever put on the queue of stream s, oldest first
Received(s) == streams[s].delivered \o queues[s]

\* how often e occurs in seq
Count(seq, e) == Cardinality({i \in 1..Len(seq) : seq[i] = e})

\* C13: a publish with a target puts the event once on the queue registered
\* under the target and on no other queue; with no queue registered under
\* the target it puts the event on no queue; it reports no error.
C13_TargetedPublishReachesTargetOnly ==
    (lastPublish.id > 0 /\ lastPublish.target # NoneStr)
    => /\ ~lastPublish.raised
       /\ \A s \in Streams :
            Count(Received(s), lastPublish.id) =
                IF s \in QueuesOf(lastPublish.conn, lastPublish.target)
                THEN 1 ELSE 0

C13_Witness ==
    /\ lastPublish.target = <<"1">>
    /\ Len(lastPublish.conn) = 2
    /\ \E s \in Streams : Count(Received(s), lastPublish.id) = 1

\* C14: a publish without a target puts the event exactly once on every
\* queue registered at the time of the publish and on no queue that had
\* left the registry before.
C14_BroadcastReachesEveryRegistered ==
    (lastPublish.id > 0 /\ lastPublish.target = NoneStr)
    => \A s \in Streams :
            Count(Received(s), lastPublish.id) =
                IF \E i \in 1..Len(lastPublish.conn) : lastPublish.conn[i][2] = s
                THEN 1 ELSE 0

C14_Witness ==
    /\ lastPublish.id > 0
    /\ lastPublish.target = NoneStr
    /\ \E s, r \in Streams :
            /\ streams[s].pc = "closed"
            /\ streams[s].unregAt < lastPublish.id
            /\ Count(Received(s), lastPublish.id) = 0
            /\ Count(Received(r), lastPublish.id) = 1

\* C15: the registry holds at most one queue per identifier; a queue is
\* empty when it is registered, and a queue replaced by a later subscribe
\* of the same identifier receives no event published after that.
C15_SubscribeReplacesQueue ==
    /\ \A i, j \in 1..Len(connections) :
            i # j => connections[i][1] # connections[j][1]
    /\ \A s \in Streams :
            \A k \in 1..Len(Received(s)) :
                /\ Received(s)[k] > streams[s].subSeq
                /\ streams[s].unregAt >= 0
                   => Received(s)[k] <= streams[s].unregAt

C15_Witness ==
    \E s, r \in Streams :
        /\ s # r
        /\ streams[s].pc = "wait" /\ streams[r].pc = "wait"
        /\ streams[s].user = streams[r].user
        /\ streams[s].unregAt >= 0
        /\ Received(s) # <<>>
        /\ r \in QueuesOf(connections, streams[r].user)
        /\ \E k \in 1..Len(queues[r]) : queues[r][k] > streams[s].unregAt

\* C16: a stream delivers the events of its queue in the order they were
\* published and delivers none twice: the ids it has delivered increase.
C16_DeliveryInPublishOrder ==
    \A s \in Streams :
        \A i, j \in 1..Len(streams[s].delivered) :
            i < j => streams[s].delivered[i] < streams[s].delivered[j]

C16_Witness ==
    \E s \in Streams :
        /\ Len(streams[s].delivered) >= 2
        /\ lastPublish.target = NoneStr

C18_NoSuspensionUnderLock ==
    /\ ~lock.held
    /\ ~lock.waiting
    /\ lastPublish.id = published

C18_Witness ==
    /\ ~lock.held
    /\ lastPublish.id = MaxEvents
    /\ \E s \in Streams :
            /\ Len(queues[s]) = MaxEvents
            /\ streams[s].delivered = <<>>
            /\ streams[s].pc = "wait"

\* C19: the due-job list a polling pass loads holds only jobs that are
\* enabled and whose next_run is at or before the current time, and the
\* pass executes only jobs of that list: a job disabled before the pass
\* started is not executed, whatever its next_run.
C19_PassRunsOnlyEnabledDueJobs ==
    /\ (sched.pc = "next" /\ sched.idx = 1)
       => \A i \in 1..Len(sched.due) :
            /\ jobs[sched.due[i]].enabled
            /\ jobs[sched.due[i]].next_run <= now
    /\ sched.executed \subseteq {sched.due[i] : i \in 1..Len(sched.due)}

C19_Witness ==
    /\ sched.pc = "next"
    /\ sched.idx = 1
    /\ \E j \in JobIds :
            /\ jobs[j].exists
            /\ ~jobs[j].enabled
            /\ jobs[j].next_run <= now
            /\ \A i \in 1..Len(sched.due) : sched.due[i] # j

\* C20: once the scheduler is done with a job it executed, the stored
\* last_run of the job is the time the execution ended, which is not before
\* the time the execution started, whatever the outcome was.
C20_LastRunRecorded ==
    \A j \in JobIds :
        (/\ schedHist[j].last >= 0
         /\ ~(sched.pc = "wait" /\ sched.due[sched.idx] = j))
        => jobs[j].last_run >= schedHist[j].last

C22_ExecutionPublishesEvent ==
    \A j \in JobIds :
        (/\ schedHist[j].last >= 0
         /\ ~(sched.pc = "wait" /\ sched.due[sched.idx] = j))
        => published > 0

\* C29: the polling loop never stops: at any time the scheduler is either
\* inside a pass or asleep with its next pass at most one polling interval
\* away, also after a pass in which loading the jobs, executing one or
\* persisting its bookkeeping failed; once that time has come the pass can
\* start.
C29_LoopSurvivesFailures ==
    /\ sched.pc \in {"sleep", "next", "wait"}
    /\ sched.pc = "sleep" => sched.wakeAt <= now + PollInterval
    /\ (sched.pc = "sleep" /\ now >= sched.wakeAt)
       => ENABLED (\E ok \in BOOLEAN : SchedWake(ok))

C29_Witness ==
    /\ sched.pc = "next"
    /\ \E j \in JobIds :
            /\ schedHist[j].last >= 0
            /\ schedHist[j].last < now
            /\ jobs[j].last_run < schedHist[j].last
            /\ j \notin sched.executed

\* C27: a step that turns the status of a running BackupJob record into
\* cancelled changes nothing else: the record keeps its other fields, every
\* process keeps running and the handler waiting for the backup process
\* keeps waiting, until the process exits or the wait times out.
C27_CancelOnlySetsStatus ==
    [][\A r \in 1..Len(backupJobs) :
          (backupJobs[r].status = "running"
           /\ Len(backupJobs') = Len(backupJobs)
           /\ backupJobs'[r].status = "cancelled")
          => /\ backupJobs' = [backupJobs EXCEPT ![r].status = "cancelled"]
             /\ procs' = procs
             /\ task' = task]_vars

C27_Witness ==
    \E r \in 1..Len(backupJobs), t \in Tasks :
        /\ backupJobs[r].status = "cancelled"
        /\ task[t].pc = "wait"
        /\ task[t].run = r
        /\ procs[task[t].proc].state = "running"

C23_InvalidCronRejectedBeforeStorage ==
    [][(/\ lastReq' # lastReq
        /\ lastReq'.op \in {"create", "update"}
        /\ lastReq'.cron # <<>>
        /\ ~CronValid(lastReq'.cron[1]))
       => /\ lastReq'.status \in {400, 403, 404}
          /\ jobs' = jobs]_vars

C23_Witness ==
    /\ lastReq.op = "update"
    /\ lastReq.status = 400
    /\ lastReq.detail = "cron"
    /\ lastReq.name # <<>>
    /\ jobs[lastReq.job].exists
    /\ jobs[lastReq.job].name # lastReq.name

\* C24: an update that carries a cron expression and is accepted stores the
\* expression and sets next_run to its first trigger after the current
\* time, whatever next_run the job had stored before.
C24_UpdateRecomputesNextRun ==
    [][(/\ lastReq' # lastReq
        /\ lastReq'.op = "update"
        /\ lastReq'.status = 200
        /\ lastReq'.cron # <<>>)
       => LET j == lastReq'.job
              p == CronPeriod(lastReq'.cron[1])
          IN  /\ jobs'[j].cron = p
              /\ jobs'[j].next_run = CronNext(p, now)
              /\ jobs'[j].next_run > now]_vars

C24_Witness ==
    /\ lastReq.op = "update"
    /\ lastReq.status = 200
    /\ lastReq.cron # <<>>
    /\ lastReq.prev >= 0
    /\ lastReq.prev + jobs[lastReq.job].cron <= now
    /\ jobs[lastReq.job].next_run > now

\* C25: a run-now that ends at an instant at which the scheduler would
\* execute the job (enabled, next_run not after now) leaves the job stored
\* as the scheduled execution with the same outcome would: as the try
\* block's bookkeeping when run_backup returned and the commit succeeded,
\* as the except block's bookkeeping when the commit raised.
C25_RunNowLikeScheduledRun ==
    [][(/\ lastReq' # lastReq
        /\ lastReq'.op = "run_now"
        /\ lastReq'.status \in {200, 500}
        /\ jobs[lastReq'.job].enabled
        /\ jobs[lastReq'.job].next_run <= now)
       => LET j == lastReq'.job
          IN  jobs'[j] = IF lastReq'.status = 200
                         THEN BookkeepDone(jobs, j, now)[j]
                         ELSE BookkeepFailed(jobs, j, now)[j]]_vars

\* C26: a get_repository_status call on a configuration that could be read
\* returns success with one entry per configured repository, and the entry
\* of every repository whose archive lookup failed (a failure result, an
\* exception, output that cannot be read) has status error.
C26_FailedLookupReportedAsError ==
    (statusCall.called /\ statusCall.config)
    => /\ statusCall.result.success
       /\ Len(statusCall.result.repositories) = Len(statusCall.lookups)
       /\ \A i \in 1..Len(statusCall.lookups) :
            statusCall.lookups[i] \in {"failure", "no_path", "bad_output"}
            => statusCall.result.repositories[i] = "error"

\* C30: once the application has started, a job that is enabled and whose
\* next_run n is at or before the current time is eventually executed by
\* the scheduler for that trigger, unless it is disabled.
C30_DueJobEventuallyExecuted ==
    \A j \in JobIds, n \in 0..MaxTime :
        (/\ background # {}
         /\ jobs[j].exists
         /\ jobs[j].enabled
         /\ jobs[j].next_run = n
         /\ n <= now)
        ~> (~jobs[j].enabled \/ schedHist[j].lastTrigger = n)


\* C31: when the backup tool cannot be run at initialization (the version
\* check exits with a code other than 0, does not answer within the check
\* timeout, or the tool is not installed), constructing the executor fails
\* with an error: no instance exists, no operation was invoked and no process
\* was spawned.
C31_NoExecutorWithoutTool ==
    (executor.state # "none" /\ executor.probe # "exit0")
        => /\ executor.state = "failed"
           /\ executor.error # ""
           /\ lastCall = NoCall
           /\ \A t \in TaskIds : task[t] = IdleTask
           /\ \A p \in Pids : procs[p] = FreeProc

\* the constructor ran against a tool that answers with a non-zero exit code
C31_Witness ==
    /\ executor.state = "failed"
    /\ executor.probe = "nonzero"
    /\ executor.error = "RuntimeError"


\* the argument with every shell metacharacter taken out
WithoutMeta(s) == SelectSeq(s, LAMBDA c : c \notin MetaChars)

\* the first n characters of s, all of s if it has no more than n
Prefix(s, n) == IF Len(s) <= n THEN s ELSE SubSeq(s, 1, n)

\* C39: sanitize returns its input with every shell metacharacter removed and
\* then truncated to at most 1000 characters (the empty string for an empty
\* input): the result contains no metacharacter, is at most 1000 characters
\* long, and sanitizing it again returns it unchanged.
C39_SanitizeRemovesThenTruncates ==
    sanitizeCall.called
        => /\ sanitizeCall.result = Prefix(WithoutMeta(sanitizeCall.arg), 1000)
           /\ \A i \in 1..Len(sanitizeCall.result) :
                 sanitizeCall.result[i] \notin MetaChars
           /\ Len(sanitizeCall.result) <= 1000
           /\ SanitizeArg(sanitizeCall.result) = sanitizeCall.result

\* an argument of more than 1000 characters that holds backslashes and is
\* still longer than 1000 characters without them was sanitized
C39_Witness ==
    /\ sanitizeCall.called
    /\ Len(sanitizeCall.arg) > 1000
    /\ \E i \in 1..Len(sanitizeCall.arg) : sanitizeCall.arg[i] = BackSlash
    /\ Len(WithoutMeta(sanitizeCall.arg)) > 1000
    /\ Len(sanitizeCall.result) = 1000


\* C36: run_backup without a config_file falls back to the configured config
\* path and invokes the tool with it: under the default configuration
\* (/app/config/borgmatic.yaml) no call is answered with the validation
\* failure of the configured path.
C36_DefaultConfigReachesExecution ==
    (config_path = DefaultConfigPath /\ lastCall.outcome = "invalid")
        => lastCall.result.stderr #
               <<"Invalid config path: contains dangerous characters">>


\* C32: from its subscribe until its own disconnect the queue of a stream
\* stays registered, so that every broadcast of the interval is put on it,
\* also when another stream of the same subscriber identifier connects or
\* disconnects meanwhile.
C32_RegisteredUntilOwnDisconnect ==
    \A s \in Streams :
        streams[s].pc = "wait"
            => /\ s \in QueuesOf(connections, streams[s].user)
               /\ streams[s].unregAt = -1


\* C33: the scheduler never starts executing a job whose enabled flag is
\* false at the moment the execution starts, also when the job was disabled
\* after the pass loaded its list of due jobs and before its turn came.
C33_NoExecutionOfDisabledJob ==
    [][(sched.pc = "next" /\ sched' # sched)
          => jobs[sched.due[sched.idx]].enabled]_vars


\* the stored jobs have pairwise different names
NamesUnique(js) ==
    \A i, k \in JobIds :
        (js[i].exists /\ js[k].exists /\ i # k) => js[i].name # js[k].name

\* C37: after any sequence of create, update and delete requests no two
\* stored ScheduledJob records have the same name; a create with a name that
\* is held, or a rename to the name of another job, is rejected and changes
\* no record.
C37_JobNamesUnique ==
    /\ []NamesUnique(jobs)
    /\ [][(/\ lastReq' # lastReq
           /\ lastReq'.op \in {"create", "update"}
           /\ lastReq'.name # <<>>
           /\ \E i \in JobIds :
                 /\ jobs[i].exists
                 /\ jobs[i].name = lastReq'.name
                 /\ lastReq'.op = "update" => i # lastReq'.job)
             => (lastReq'.status # 200 /\ jobs' = jobs)]_vars

\* an administrator's rename of a job to the name another job holds was
\* rejected for the name, both jobs being stored
C37_Witness ==
    /\ lastReq.op = "update"
    /\ lastReq.admin
    /\ lastReq.status = 400
    /\ lastReq.detail = "name"
    /\ jobs[lastReq.job].exists
    /\ jobs[lastReq.job].name # lastReq.name
    /\ \E i \in JobIds : jobs[i].exists /\ jobs[i].name = lastReq.name


\* C38: a create, update, delete, toggle or run-now request of a user who is
\* not an administrator is rejected, leaves every ScheduledJob record as it
\* was and starts no backup process.
C38_NonAdminChangesNothing ==
    [][(lastReq' # lastReq /\ ~lastReq'.admin)
          => /\ lastReq'.status = 403
             /\ jobs' = jobs
             /\ procs' = procs
             /\ task' = task]_vars

\* a toggle request of a user who is not an administrator was answered, for
\* a job that is stored
C38_Witness ==
    /\ lastReq.op = "toggle"
    /\ ~lastReq.admin
    /\ lastReq.status = 403
    /\ jobs[lastReq.job].exists

\* C34: a disabled job that is enabled again is armed with a next_run in the
\* future: the scheduler does not execute it before the first cron trigger
\* that follows the moment it was enabled, even if the next_run it has stored
\* lies in the past.
C34_EnabledJobWaitsForNextTrigger ==
    [][(/\ sched.pc = "next"
        /\ sched' # sched
        /\ lastReq.op = "toggle"
        /\ lastReq.status = 200
        /\ lastReq.job = sched.due[sched.idx]
        /\ jobs[lastReq.job].enabled)
          => now >= CronNext(jobs[lastReq.job].cron, lastReq.at)]_vars


\* C35: every BackupJobRun created with status running reaches a terminal
\* status once its backup invocation has ended, also when a step of the
\* handler fails after the record was created: a record is running only
\* while the start request that created it is still waiting for its backup.
C35_RunningRecordHasPendingBackup ==
    \A r \in 1..Len(backupJobs) :
        backupJobs[r].status = "running"
            => \E t \in Tasks : /\ task[t].kind = "start_backup"
                                /\ task[t].run = r
                                /\ task[t].pc = "wait"

====
